---- MODULE Spec2Model ----
(***************************************************************************)
(* Model of simple-delta-gen.py (class SimpleDeltaGen and main): the       *)
(* pipeline SizeProbe -> Recompress | SkipRecompress -> Diff -> Compress   *)
(* -> Statistics -> Done, run as a sequence of jobs that share one working *)
(* directory.                                                              *)
(*                                                                         *)
(* A file is a record [kind, members]: kind "none" is a missing file,      *)
(* "orig" an archive as supplied by the caller, "rebuilt" an archive       *)
(* written by cpio -o, "partial" what a failed cpio -o leaves behind,      *)
(* "stale" a file left by an earlier job and "data" any other content.     *)
(* members is the archive's stored member order.                           *)
(*                                                                         *)
(* External tools (cpio, bsdiff, zstd, gzip, the file system) are the      *)
(* environment: whether a tool is on PATH is fixed when the job starts,    *)
(* the exit status of each invocation is chosen when it runs.  A Python    *)
(* exception that no handler catches ends the job with result "raised".    *)
(***************************************************************************)
EXTENDS Integers, Sequences, FiniteSets, TLC

\* ---------------------------------------------------------------- bounds
MaxLen == 3
MaxArgs == 7

\* ------------------------------------------------------------- constants
ControlMember == "sw-description"
ImageMember   == "rootfs.img"
DirMember     == "scripts"
PaddedMember  == "notes.txt "
StrippedName  == "notes.txt"

\* Member names of the archives the model enumerates.  DirMember is a
\* directory entry: cpio lists it, but Path.is_file() is false for it.
\* PaddedMember is a regular file whose name ends in a space.
Names == {ControlMember, ImageMember, DirMember, PaddedMember}

\* str.strip() on the names the model uses
Strip(n) == IF n = PaddedMember THEN StrippedName ELSE n

\* every name an order list can hold
AllNames == Names \cup {Strip(n) : n \in Names}

IsRegular(n) == n # DirMember

SourcePath == "source.swu"
TargetPath == "target.swu"
RecompPath == "recomp.swu"
TempDiff   == "swu.diff"
OutputDiff == "out.diff"
StatsFile  == "statistics.txt"

Paths == {SourcePath, TargetPath, RecompPath}

NoFile   == [kind |-> "none",    members |-> <<>>]
Data     == [kind |-> "data",    members |-> <<>>]
Stale    == [kind |-> "stale",   members |-> <<>>]
Partial  == [kind |-> "partial", members |-> <<>>]
Unreadable == [kind |-> "unreadable", members |-> <<>>]
Orig(m)    == [kind |-> "orig",    members |-> m]
Rebuilt(m) == [kind |-> "rebuilt", members |-> m]

Listings == UNION {[1..n -> Names] : n \in 0..MaxLen}
Archives == {Orig(m) : m \in Listings}

Envs == [cpio : BOOLEAN, bsdiff : BOOLEAN, zstd : BOOLEAN]

\* Values of the optional sixth command-line argument.
RecompArgs == {"None", "", RecompPath, TargetPath}

\* The directories __init__ makes, in the order it makes them.
Dirs == <<"log_dir", "work_dir", "source_dir", "target_dir">>

VARIABLES
    pc,                   \* position of the running job
    env,                  \* which tools shutil.which / exec find on PATH
    recompressed_output,  \* self.recompressed_output ("None" or a path)
    fs,                   \* source, target and recompressed-output files
    temp_extract,         \* regular files in work_dir/recompress_<stem>
    file_order,           \* extract_swu: the listing as parsed
    original_file_order,  \* recompress_swu: the order list after correction
    file_list,            \* recompress_swu: the verified member list
    recompress_result,    \* "none", "True", "False" or "raised"
    target_for_diff,      \* generate_delta: path handed to create_bsdiff
    stats_target,         \* path handed to generate_statistics as target
    result,               \* generate_delta: "none", "True", "False", "raised"
    steps,                \* pipeline steps entered by this job, in order
    invoked,              \* tools and methods this job has invoked
    written,              \* paths this job has written
    log,                  \* log events of this job
    failed,               \* steps of this job whose tool or I/O failed
    compress_cmd,         \* the compressor run by the Compress step
    origTarget,           \* the target file as it was when the job started
    diffInput,            \* the file create_bsdiff received as target
    d_pc,                 \* two repackaging runs: "off", "run1", "run2", "done"
    d_members,            \* two runs: stored member order of the archive
    d_dir,                \* two runs: regular files in the scratch directory
    d_iter,               \* two runs: directory iteration order of each run
    d_list,               \* two runs: member list each run feeds to cpio -o
    s_pc,                 \* generate_statistics: "off", "stat", "written"
    source_size,          \* generate_statistics: source_file.stat().st_size
    target_size,          \* generate_statistics: target_file.stat().st_size
    diff_size,            \* generate_statistics: diff_file.stat().st_size
    compression_ratio,    \* generate_statistics: the quotient, <<num, den>>
    statistics,           \* generate_statistics: lines of statistics.txt
    p_pc,                 \* communicate(): "off", "communicate", "done"
    p_input,              \* communicate(): lines of input not yet written
    stdin_open,           \* communicate(): the child's stdin is still open
    stdin_fill,           \* lines in the pipe to the child's stdin
    stderr_fill,          \* messages in the pipe from the child's stderr
    cap,                  \* capacity of the stdin pipe and of the stderr pipe
    c_pc,                 \* child: "off", "running", "finishing", "exited"
    c_pending,            \* child: messages it has yet to write to stderr
    stderr,               \* communicate(): messages read from stderr so far
    argc,                 \* main: number of positional arguments given
    generator,            \* main: "None" or "SimpleDeltaGen" once constructed
    made_dirs,            \* __init__: directories this process has made
    usage,                \* main: the usage text has been printed
    exit_status,          \* exit status of the process: "none", "0", "1"
    g_pc,                 \* generate_import_manifest: "off", "call", "returned"
    g_swu,                \* generate_import_manifest: key of the swu_file given
    related_files,        \* generate_import_manifest: the argument (or None)
    enable_delta_caching, \* generate_import_manifest: the argument
    manifest,             \* generate_import_manifest: the value returned
    m_pc,                 \* manifest main: position
    present,              \* manifest main: files that exist in images_dir
    swu_hashes,           \* manifest main: dict of the SWU files found
    delta_hashes,         \* manifest main: dict of the delta files found
    manifests,            \* manifest main: manifests written, by version
    m_result              \* manifest main: "none", "exit 0", "exit 1", "KeyError"

vars == <<pc, env, recompressed_output, fs, temp_extract, file_order,
          original_file_order, file_list, recompress_result, target_for_diff,
          stats_target, result, steps, invoked, written, log, failed,
          compress_cmd, origTarget, diffInput, d_pc, d_members, d_dir,
          d_iter, d_list, s_pc, source_size, target_size, diff_size,
          compression_ratio, statistics, p_pc, p_input, stdin_open,
          stdin_fill, stderr_fill, cap, c_pc, c_pending, stderr, argc,
          generator, made_dirs, usage, exit_status, g_pc, g_swu,
          related_files, enable_delta_caching, manifest, m_pc, present,
          swu_hashes, delta_hashes, manifests, m_result>>

recompressLocals == <<file_order, original_file_order, file_list>>

\* ------------------------------------------------------- pure functions

\* __init__: Path(recompressed_output) if recompressed_output else None
PathOrNone(arg) == IF arg = "" \/ arg = "None" THEN "None" ELSE arg

\* mutant: the recompression branch is taken whether or not a path was given
RecompressRequested_always(ro) == TRUE

\* generate_delta: if self.recompressed_output:
RecompressRequested(ro) == ro # "None"

\* list.remove(x): drops the first occurrence of x
Remove(seq, x) ==
    LET i == CHOOSE k \in 1..Len(seq) :
                 seq[k] = x /\ \A j \in 1..(k - 1) : seq[j] # x
    IN  SubSeq(seq, 1, i - 1) \o SubSeq(seq, i + 1, Len(seq))

Contains(seq, x) == \E i \in 1..Len(seq) : seq[i] = x

\* extract_swu: [line.strip() for line in stdout.splitlines() if line.strip()]
\* cpio -it prints one member name per line; each line is stripped and the
\* lines that are empty after stripping are dropped.
ParseListing(members) ==
    SelectSeq([i \in 1..Len(members) |-> Strip(members[i])],
              LAMBDA n : n # "")

\* mutant: the result of a failed extraction is used like a successful one
ExtractedIsNone_ignoresFailure(order, ok) == order = <<>>

\* extract_swu: return file_order if file_order else None, None on failure
ExtractedIsNone(order, ok) == ~ok \/ order = <<>>

\* mutant: the control member is inserted without removing it from its place
EnforceFirst_keepsDuplicate(order) ==
    IF order = <<>> \/ order[1] # ControlMember
    THEN <<ControlMember>> \o order
    ELSE order

\* recompress_swu: the control-member-first correction of the order list
EnforceFirst(order) ==
    IF order = <<>> \/ order[1] # ControlMember
    THEN <<ControlMember>> \o
         (IF Contains(order, ControlMember)
          THEN Remove(order, ControlMember) ELSE order)
    ELSE order

\* mutant: the names are not checked against the scratch directory
VerifyFiles_keepsAll(order, dir) == order

\* recompress_swu: keep the names whose path is a regular file on disk
VerifyFiles(order, dir) == SelectSeq(order, LAMBDA n : n \in dir)

\* the regular files cpio -idmv creates for a sequence of members
Extracted(members) ==
    {members[i] : i \in {j \in 1..Len(members) : IsRegular(members[j])}}

\* generate_delta: target_for_diff after the recompression decision
ChosenTarget(ro, rr) == IF rr = "True" THEN ro ELSE TargetPath

\* mutant: bsdiff is run without looking it up first
BsdiffFound_noCheck(e) == TRUE

\* create_bsdiff: shutil.which('bsdiff')
BsdiffFound(e) == e.bsdiff

\* compress_with_zstd: shutil.which('zstd')
ZstdFound(e) == e.zstd

\* compress_with_zstd(..., level=3) and gzip.open(..., compresslevel=6)
ZstdLevel == 3
GzipLevel == 6

NoCommand == [tool |-> "none", level |-> 0, output |-> "none"]

\* mutant: the gzip fallback compresses at the level asked of zstd
CompressCommand_keepsLevel(e, level, out) ==
    [tool |-> IF ZstdFound(e) THEN "zstd" ELSE "gzip", level |-> level,
     output |-> out]

\* compress_with_zstd / compress_with_gzip: the compressor that is run
CompressCommand(e, level, out) ==
    IF ZstdFound(e)
    THEN [tool |-> "zstd", level |-> level, output |-> out]
    ELSE [tool |-> "gzip", level |-> GzipLevel, output |-> out]

\* mutant: a successful diff goes straight to the statistics
AfterDiff_skipsCompress(ok) == IF ok THEN "Statistics" ELSE "Failed"

\* generate_delta: if not self.create_bsdiff(...): return False
AfterDiff(ok) == IF ok THEN "Compress" ELSE "Failed"

\* mutant: the result of the compression is ignored
AfterCompress_ignoresFailure(ok) == "Statistics"

\* generate_delta: if not self.compress_with_zstd(...): return False
AfterCompress(ok) == IF ok THEN "Statistics" ELSE "Failed"

\* generate_delta: the target whose size generate_statistics reports
StatsTarget(ro, f) ==
    IF ro # "None" /\ f[ro].kind # "none" THEN ro ELSE TargetPath

\* ---------------------------------------------------------------- Init
\* no job has run yet
InitPipeline ==
    /\ pc = "idle"
    /\ env = [cpio |-> TRUE, bsdiff |-> TRUE, zstd |-> TRUE]
    /\ recompressed_output = "None"
    /\ fs = [p \in Paths |-> NoFile]
    /\ temp_extract = {}
    /\ file_order = <<>>
    /\ original_file_order = <<>>
    /\ file_list = <<>>
    /\ recompress_result = "none"
    /\ target_for_diff = "unset"
    /\ stats_target = "unset"
    /\ result = "none"
    /\ steps = <<>>
    /\ invoked = {}
    /\ written = {}
    /\ log = {}
    /\ failed = {}
    /\ compress_cmd = NoCommand
    /\ origTarget = NoFile
    /\ diffInput = NoFile
    /\ argc = 0
    /\ generator = "None"
    /\ made_dirs = {}
    /\ usage = FALSE
    /\ exit_status = "none"

\* no two-run comparison is going on
DetOff ==
    /\ d_pc = "off"
    /\ d_members = <<>>
    /\ d_dir = {}
    /\ d_iter = <<<<>>, <<>>>>
    /\ d_list = <<<<>>, <<>>>>

\* generate_statistics is not being looked at on its own
StatsOff ==
    /\ s_pc = "off"
    /\ source_size = 0
    /\ target_size = 0
    /\ diff_size = 0
    /\ compression_ratio = <<0, 1>>
    /\ statistics = <<>>

\* no exchange with a cpio -o child is being looked at on its own
PipeOff ==
    /\ p_pc = "off"
    /\ p_input = 0
    /\ stdin_open = FALSE
    /\ stdin_fill = 0
    /\ stderr_fill = 0
    /\ cap = <<1, 1>>
    /\ c_pc = "off"
    /\ c_pending = 0
    /\ stderr = 0

\* generate_import_manifest is not being looked at on its own
GenOff ==
    /\ g_pc = "off"
    /\ g_swu = "v1"
    /\ related_files = [given |-> FALSE, items |-> <<>>]
    /\ enable_delta_caching = FALSE
    /\ manifest = <<>>

\* the manifest generator is not running
MainOff ==
    /\ m_pc = "off"
    /\ present = {}
    /\ swu_hashes = <<>>
    /\ delta_hashes = <<>>
    /\ manifests = <<>>
    /\ m_result = "none"

Init ==
    /\ InitPipeline
    /\ DetOff
    /\ StatsOff
    /\ PipeOff
    /\ GenOff
    /\ MainOff

\* an exception no handler catches leaves generate_delta
Raised ==
    /\ pc' = "Failed"
    /\ result' = "raised"

\* ------------------------------------------------------------- actions

\* main: len(sys.argv) in [6, 7], sys.argv[0] being the script
ArgcAccepted(n) == n + 1 \in {6, 7}

\* main: sys.argv[6] if len(sys.argv) == 7 else None
SixthArgument(n) == IF n + 1 = 7 THEN RecompArgs \ {"None"} ELSE {"None"}

\* mutant: the exit status does not depend on the outcome
ExitStatus_alwaysZero(r) == "0"

\* main: sys.exit(0 if success else 1); the interpreter ends with status 1
\* on an uncaught exception
ExitStatus(r) == IF r = "True" THEN "0" ELSE "1"

\* main and __init__: a process is started with its arguments.  With the
\* wrong number of arguments main prints the usage and exits.  Otherwise
\* __init__ makes its four directories; a mkdir that fails raises out of
\* main.  The caller supplies source and target; the scratch directory and
\* the file at the recompressed-output path are as earlier jobs left them.
NewJob ==
    /\ pc = "idle"
    /\ \E n \in 0..MaxArgs :
         /\ argc' = n
         /\ IF ~ArgcAccepted(n)
            THEN /\ usage' = TRUE
                 /\ exit_status' = "1"
                 /\ pc' = "Usage"
                 /\ UNCHANGED <<recompressed_output, env, fs, origTarget,
                                made_dirs, generator, result>>
            ELSE /\ \E made \in 0..Len(Dirs) :
                      /\ made_dirs' = {Dirs[i] : i \in 1..made}
                      /\ IF made < Len(Dirs)
                         THEN /\ Raised
                              /\ UNCHANGED <<recompressed_output, env, fs,
                                             origTarget, generator>>
                         ELSE /\ \E arg \in SixthArgument(n), e \in Envs,
                                    src \in {NoFile, Data},
                                    tgt \in Archives \cup {NoFile, Unreadable} :
                                   /\ recompressed_output' = PathOrNone(arg)
                                   /\ env' = e
                                   /\ fs' = [fs EXCEPT ![SourcePath] = src,
                                                       ![TargetPath] = tgt]
                                   /\ origTarget' = tgt
                              /\ generator' = "SimpleDeltaGen"
                              /\ pc' = "SizeProbe"
                              /\ UNCHANGED result
                 /\ UNCHANGED <<usage, exit_status>>
    /\ UNCHANGED <<temp_extract, file_order, original_file_order, file_list,
                   recompress_result, target_for_diff, stats_target, steps,
                   invoked, written, log, failed, compress_cmd, diffInput,
                   d_pc, d_members, d_dir, d_iter, d_list, s_pc, source_size,
                   target_size, diff_size, compression_ratio, statistics,
                   p_pc, p_input, stdin_open, stdin_fill, stderr_fill, cap,
                   c_pc, c_pending, stderr, g_pc, g_swu, related_files,
                   enable_delta_caching, manifest, m_pc, present, swu_hashes,
                   delta_hashes, manifests, m_result>>

\* main: sys.exit(0 if success else 1), or the interpreter ending on an
\* uncaught exception
SysExit ==
    /\ pc \in {"Done", "Failed"}
    /\ exit_status = "none"
    /\ exit_status' = ExitStatus(result)
    /\ UNCHANGED <<pc, env, recompressed_output, fs, temp_extract,
                   file_order, original_file_order, file_list,
                   recompress_result, target_for_diff, stats_target, result,
                   steps, invoked, written, log, failed, compress_cmd,
                   origTarget, diffInput, d_pc, d_members, d_dir, d_iter,
                   d_list, s_pc, source_size, target_size, diff_size,
                   compression_ratio, statistics, p_pc, p_input, stdin_open,
                   stdin_fill, stderr_fill, cap, c_pc, c_pending, stderr,
                   argc, generator, made_dirs, usage, g_pc, g_swu,
                   related_files, enable_delta_caching, manifest, m_pc,
                   present, swu_hashes, delta_hashes, manifests, m_result>>

\* The process is gone and with it its memory; the scratch directory and
\* the file at the recompressed-output path stay for the next job.
Exit ==
    /\ pc \in {"Done", "Failed", "Usage"}
    /\ exit_status # "none"
    /\ argc' = 0
    /\ generator' = "None"
    /\ made_dirs' = {}
    /\ usage' = FALSE
    /\ exit_status' = "none"
    /\ pc' = "idle"
    /\ fs' = [p \in Paths |->
                IF p = RecompPath /\ fs[p].kind # "none" THEN Stale
                ELSE NoFile]
    /\ env' = [cpio |-> TRUE, bsdiff |-> TRUE, zstd |-> TRUE]
    /\ recompressed_output' = "None"
    /\ file_order' = <<>>
    /\ original_file_order' = <<>>
    /\ file_list' = <<>>
    /\ recompress_result' = "none"
    /\ target_for_diff' = "unset"
    /\ stats_target' = "unset"
    /\ result' = "none"
    /\ steps' = <<>>
    /\ invoked' = {}
    /\ written' = {}
    /\ log' = {}
    /\ failed' = {}
    /\ compress_cmd' = NoCommand
    /\ origTarget' = NoFile
    /\ diffInput' = NoFile
    /\ UNCHANGED <<temp_extract, d_pc, d_members, d_dir, d_iter, d_list,
                   s_pc, source_size, target_size, diff_size,
                   compression_ratio, statistics, p_pc, p_input, stdin_open,
                   stdin_fill, stderr_fill, cap, c_pc, c_pending, stderr,
                   g_pc, g_swu, related_files, enable_delta_caching,
                   manifest, m_pc, present, swu_hashes, delta_hashes,
                   manifests, m_result>>

\* generate_delta: self.source_swu.stat(), self.target_swu.stat()
SizeProbe ==
    /\ pc = "SizeProbe"
    /\ steps' = Append(steps, "SizeProbe")
    /\ IF fs[SourcePath].kind = "none" \/ fs[TargetPath].kind = "none"
       THEN /\ Raised
            /\ failed' = failed \cup {"SizeProbe"}
       ELSE /\ pc' = "Decide"
            /\ UNCHANGED <<result, failed>>
    /\ UNCHANGED <<env, recompressed_output, fs, temp_extract, file_order,
                   original_file_order, file_list, recompress_result,
                   target_for_diff, stats_target, invoked, written, log,
                   compress_cmd, origTarget, diffInput, d_pc, d_members,
                   d_dir, d_iter, d_list, s_pc, source_size, target_size,
                   diff_size, compression_ratio, statistics, p_pc, p_input,
                   stdin_open, stdin_fill, stderr_fill, cap, c_pc, c_pending,
                   stderr, argc, generator, made_dirs, usage, exit_status,
                   g_pc, g_swu, related_files, enable_delta_caching,
                   manifest, m_pc, present, swu_hashes, delta_hashes,
                   manifests, m_result>>

\* generate_delta: if self.recompressed_output: ... else: ...
Decide ==
    /\ pc = "Decide"
    /\ IF RecompressRequested(recompressed_output)
       THEN /\ steps' = Append(steps, "Recompress")
            /\ invoked' = invoked \cup {"recompress_swu"}
            /\ pc' = "List"
            /\ UNCHANGED target_for_diff
       ELSE /\ steps' = Append(steps, "SkipRecompress")
            /\ target_for_diff' = TargetPath
            /\ pc' = "Diff"
            /\ UNCHANGED invoked
    /\ UNCHANGED <<env, recompressed_output, fs, temp_extract, file_order,
                   original_file_order, file_list, recompress_result,
                   stats_target, result, written, log, failed, compress_cmd,
                   origTarget, diffInput, d_pc, d_members, d_dir, d_iter,
                   d_list, s_pc, source_size, target_size, diff_size,
                   compression_ratio, statistics, p_pc, p_input, stdin_open,
                   stdin_fill, stderr_fill, cap, c_pc, c_pending, stderr,
                   argc, generator, made_dirs, usage, exit_status, g_pc,
                   g_swu, related_files, enable_delta_caching, manifest,
                   m_pc, present, swu_hashes, delta_hashes, manifests,
                   m_result>>

\* mutant: a failed repackaging is started again
ReturnFalse_retries ==
    /\ recompress_result' = "False"
    /\ pc' = "List"
    /\ UNCHANGED result

\* recompress_swu returns False to generate_delta
ReturnFalse ==
    /\ recompress_result' = "False"
    /\ pc' = "ChooseTarget"
    /\ UNCHANGED result

\* recompress_swu up to extract_swu's listing: cpio -it on the original
\* archive.  open(swu_file, 'rb') raises PermissionError for an archive that
\* cannot be read, and without cpio on PATH subprocess.run raises
\* FileNotFoundError; extract_swu catches only CalledProcessError, and
\* neither recompress_swu nor generate_delta catches anything here.
ListArchive ==
    /\ pc = "List"
    /\ IF fs[TargetPath].kind = "unreadable" \/ ~env.cpio
       THEN /\ Raised
            /\ recompress_result' = "raised"
            /\ failed' = failed \cup {"List"}
            /\ UNCHANGED <<file_order, invoked, log>>
       ELSE /\ invoked' = invoked \cup {"cpio -it"}
            /\ \E ok \in BOOLEAN :
                 /\ file_order' = IF ok
                                  THEN ParseListing(fs[TargetPath].members)
                                  ELSE <<>>
                 /\ log' = IF ok THEN log
                           ELSE log \cup {"WARNING: Failed to list files"}
                 /\ failed' = IF ok THEN failed ELSE failed \cup {"List"}
            /\ pc' = "Extract"
            /\ UNCHANGED <<result, recompress_result>>
    /\ UNCHANGED <<env, recompressed_output, fs, temp_extract,
                   original_file_order, file_list, target_for_diff,
                   stats_target, steps, written, compress_cmd, origTarget,
                   diffInput, d_pc, d_members, d_dir, d_iter, d_list, s_pc,
                   source_size, target_size, diff_size, compression_ratio,
                   statistics, p_pc, p_input, stdin_open, stdin_fill,
                   stderr_fill, cap, c_pc, c_pending, stderr, argc,
                   generator, made_dirs, usage, exit_status, g_pc, g_swu,
                   related_files, enable_delta_caching, manifest, m_pc,
                   present, swu_hashes, delta_hashes, manifests, m_result>>

\* extract_swu's extraction (cpio -idmv) and recompress_swu's test of its
\* result: None when the extraction failed or the listing is empty.  A
\* failed extraction may have created the files of a prefix of the archive.
ExtractArchive ==
    /\ pc = "Extract"
    /\ invoked' = invoked \cup {"cpio -idmv"}
    /\ \E ok \in BOOLEAN, k \in 0..Len(fs[TargetPath].members) :
         LET members == fs[TargetPath].members
             done == IF ok THEN members ELSE SubSeq(members, 1, k)
             none == ExtractedIsNone(file_order, ok)
         IN  /\ ok => k = 0
             /\ failed' = IF ok THEN failed ELSE failed \cup {"Extract"}
             /\ temp_extract' = temp_extract \cup Extracted(done)
             /\ IF none
                THEN /\ ReturnFalse
                     /\ log' = log \cup {"ERROR: Failed to extract SWU"}
                ELSE /\ pc' = "Order"
                     /\ UNCHANGED <<result, recompress_result, log>>
    /\ UNCHANGED <<env, recompressed_output, fs, file_order,
                   original_file_order, file_list, target_for_diff,
                   stats_target, steps, written, compress_cmd, origTarget,
                   diffInput, d_pc, d_members, d_dir, d_iter, d_list, s_pc,
                   source_size, target_size, diff_size, compression_ratio,
                   statistics, p_pc, p_input, stdin_open, stdin_fill,
                   stderr_fill, cap, c_pc, c_pending, stderr, argc,
                   generator, made_dirs, usage, exit_status, g_pc, g_swu,
                   related_files, enable_delta_caching, manifest, m_pc,
                   present, swu_hashes, delta_hashes, manifests, m_result>>

\* recompress_swu: verify sw-description is first, enforce it otherwise
EnforceOrder ==
    /\ pc = "Order"
    /\ original_file_order' = EnforceFirst(file_order)
    /\ log' = IF file_order = <<>> \/ file_order[1] # ControlMember
              THEN log \cup {"WARNING: sw-description is not first"}
              ELSE log
    /\ pc' = "Verify"
    /\ UNCHANGED <<env, recompressed_output, fs, temp_extract, file_order,
                   file_list, recompress_result, target_for_diff,
                   stats_target, result, steps, invoked, written, failed,
                   compress_cmd, origTarget, diffInput, d_pc, d_members,
                   d_dir, d_iter, d_list, s_pc, source_size, target_size,
                   diff_size, compression_ratio, statistics, p_pc, p_input,
                   stdin_open, stdin_fill, stderr_fill, cap, c_pc, c_pending,
                   stderr, argc, generator, made_dirs, usage, exit_status,
                   g_pc, g_swu, related_files, enable_delta_caching,
                   manifest, m_pc, present, swu_hashes, delta_hashes,
                   manifests, m_result>>

\* recompress_swu: verify all files from the list actually exist
Verify ==
    /\ pc = "Verify"
    /\ LET verified == VerifyFiles(original_file_order, temp_extract)
       IN  /\ file_list' = verified
           /\ IF verified = <<>>
              THEN /\ ReturnFalse
                   /\ log' = log \cup {"ERROR: No files to recompress!"}
                              \cup (IF original_file_order # verified
                                    THEN {"WARNING: not found on disk, skipping"}
                                    ELSE {})
              ELSE /\ pc' = "Build"
                   /\ log' = log \cup (IF original_file_order # verified
                                       THEN {"WARNING: not found on disk, skipping"}
                                       ELSE {})
                   /\ UNCHANGED <<result, recompress_result>>
    /\ UNCHANGED <<env, recompressed_output, fs, temp_extract, file_order,
                   original_file_order, target_for_diff, stats_target, steps,
                   invoked, written, failed, compress_cmd, origTarget,
                   diffInput, d_pc, d_members, d_dir, d_iter, d_list, s_pc,
                   source_size, target_size, diff_size, compression_ratio,
                   statistics, p_pc, p_input, stdin_open, stdin_fill,
                   stderr_fill, cap, c_pc, c_pending, stderr, argc,
                   generator, made_dirs, usage, exit_status, g_pc, g_swu,
                   related_files, enable_delta_caching, manifest, m_pc,
                   present, swu_hashes, delta_hashes, manifests, m_result>>

\* mutant: a scratch directory that could not be removed is a failure
RecompressReturn_strict(built, removed) ==
    IF built /\ removed THEN "True" ELSE "False"

\* recompress_swu: return True after the cleanup, whatever rmtree could do
RecompressReturn(built, removed) == IF built THEN "True" ELSE "False"

\* recompress_swu: Popen(sh -c '... | cpio -o -H crc --reproducible') with the
\* output file opened 'wb', communicate(), the test of the return code and
\* the cleanup.  how = "ok": exit status 0; "exit": non-zero exit status,
\* return False without cleanup; "open": open(output_swu, 'wb') raises;
\* "pipe": communicate raises after the output file was truncated.
\* shutil.rmtree(ignore_errors=True) removes what it can: rest stays, and
\* nothing is raised or logged for it.
BuildArchive ==
    /\ pc = "Build"
    /\ \E how \in {"ok", "exit", "open", "pipe"}, rest \in SUBSET temp_extract :
         /\ how = "exit" => rest = temp_extract
         /\ temp_extract' = rest
         /\ fs' = CASE how = "ok"   ->
                         [fs EXCEPT ![recompressed_output] = Rebuilt(file_list)]
                    [] how = "open" -> fs
                    [] OTHER        ->
                         [fs EXCEPT ![recompressed_output] = Partial]
         /\ written' = IF how = "open" THEN written
                       ELSE written \cup {recompressed_output}
         /\ invoked' = invoked
                          \cup (IF how = "open" THEN {} ELSE {"cpio -o"})
                          \cup (IF how = "exit" THEN {} ELSE {"rmtree"})
         /\ recompress_result' = RecompressReturn(how = "ok", rest = {})
         /\ failed' = failed
                         \cup (IF how = "ok" THEN {} ELSE {"Build"})
                         \cup (IF how # "exit" /\ rest # {}
                               THEN {"Cleanup"} ELSE {})
         /\ log' = CASE how = "ok"   -> log
                     [] how = "exit" -> log \cup {"ERROR: CPIO failed"}
                     [] OTHER        -> log \cup {"ERROR during recompression"}
    /\ pc' = "ChooseTarget"
    /\ UNCHANGED <<env, recompressed_output, file_order, original_file_order,
                   file_list, target_for_diff, stats_target, result, steps,
                   compress_cmd, origTarget, diffInput, d_pc, d_members,
                   d_dir, d_iter, d_list, s_pc, source_size, target_size,
                   diff_size, compression_ratio, statistics, p_pc, p_input,
                   stdin_open, stdin_fill, stderr_fill, cap, c_pc, c_pending,
                   stderr, argc, generator, made_dirs, usage, exit_status,
                   g_pc, g_swu, related_files, enable_delta_caching,
                   manifest, m_pc, present, swu_hashes, delta_hashes,
                   manifests, m_result>>

\* generate_delta: the branch on recompress_swu's result
ChooseTarget ==
    /\ pc = "ChooseTarget"
    /\ target_for_diff' = ChosenTarget(recompressed_output, recompress_result)
    /\ log' = IF recompress_result = "True" THEN log
              ELSE log \cup {"WARNING: Recompression failed, using original target"}
    /\ pc' = "Diff"
    /\ UNCHANGED <<env, recompressed_output, fs, temp_extract, file_order,
                   original_file_order, file_list, recompress_result,
                   stats_target, result, steps, invoked, written, failed,
                   compress_cmd, origTarget, diffInput, d_pc, d_members,
                   d_dir, d_iter, d_list, s_pc, source_size, target_size,
                   diff_size, compression_ratio, statistics, p_pc, p_input,
                   stdin_open, stdin_fill, stderr_fill, cap, c_pc, c_pending,
                   stderr, argc, generator, made_dirs, usage, exit_status,
                   g_pc, g_swu, related_files, enable_delta_caching,
                   manifest, m_pc, present, swu_hashes, delta_hashes,
                   manifests, m_result>>

\* generate_delta step 2 and create_bsdiff: the tool is looked up first and
\* run through run_command, which turns a non-zero exit into False.  A
\* failing bsdiff may or may not have created the diff file; bsdiff fails
\* on a target it cannot read.
Diff ==
    /\ pc = "Diff"
    /\ steps' = Append(steps, "Diff")
    /\ diffInput' = fs[target_for_diff]
    /\ IF ~BsdiffFound(env)
       THEN /\ log' = log \cup {"ERROR: bsdiff not found in PATH"}
            /\ failed' = failed \cup {"Diff"}
            /\ pc' = AfterDiff(FALSE)
            /\ result' = "False"
            /\ UNCHANGED <<invoked, written>>
       ELSE /\ invoked' = invoked \cup {"bsdiff"}
            /\ \E ok \in BOOLEAN, wrote \in BOOLEAN :
                 /\ ok => wrote
                 /\ ok => fs[target_for_diff].kind # "unreadable"
                 /\ written' = IF wrote THEN written \cup {TempDiff}
                               ELSE written
                 /\ log' = IF ok THEN log
                           ELSE log \cup {"ERROR: Command failed"}
                 /\ failed' = IF ok THEN failed ELSE failed \cup {"Diff"}
                 /\ pc' = AfterDiff(ok)
                 /\ result' = IF AfterDiff(ok) = "Failed" THEN "False"
                              ELSE result
    /\ UNCHANGED <<env, recompressed_output, fs, temp_extract, file_order,
                   original_file_order, file_list, recompress_result,
                   target_for_diff, stats_target, compress_cmd, origTarget,
                   d_pc, d_members, d_dir, d_iter, d_list, s_pc, source_size,
                   target_size, diff_size, compression_ratio, statistics,
                   p_pc, p_input, stdin_open, stdin_fill, stderr_fill, cap,
                   c_pc, c_pending, stderr, argc, generator, made_dirs,
                   usage, exit_status, g_pc, g_swu, related_files,
                   enable_delta_caching, manifest, m_pc, present, swu_hashes,
                   delta_hashes, manifests, m_result>>

\* generate_delta step 3, compress_with_zstd and compress_with_gzip: zstd
\* through run_command when it is on PATH, gzip level 6 otherwise.  An
\* OSError in compress_with_gzip is caught nowhere.
Compress ==
    /\ pc = "Compress"
    /\ steps' = Append(steps, "Compress")
    /\ compress_cmd' = CompressCommand(env, ZstdLevel, OutputDiff)
    /\ \E ok \in BOOLEAN, wrote \in BOOLEAN :
         /\ ok => wrote
         /\ written' = IF wrote THEN written \cup {OutputDiff} ELSE written
         /\ failed' = IF ok THEN failed ELSE failed \cup {"Compress"}
         /\ IF ZstdFound(env)
            THEN /\ invoked' = invoked \cup {"zstd"}
                 /\ log' = IF ok THEN log
                           ELSE log \cup {"ERROR: Command failed"}
                 /\ pc' = AfterCompress(ok)
                 /\ result' = IF AfterCompress(ok) = "Failed" THEN "False"
                              ELSE result
            ELSE /\ invoked' = invoked \cup {"gzip -6"}
                 /\ log' = log \cup {"WARNING: zstd not found, using gzip"}
                 /\ IF ok
                    THEN /\ pc' = AfterCompress(TRUE)
                         /\ UNCHANGED result
                    ELSE Raised
    /\ UNCHANGED <<env, recompressed_output, fs, temp_extract, file_order,
                   original_file_order, file_list, recompress_result,
                   target_for_diff, stats_target, origTarget, diffInput,
                   d_pc, d_members, d_dir, d_iter, d_list, s_pc, source_size,
                   target_size, diff_size, compression_ratio, statistics,
                   p_pc, p_input, stdin_open, stdin_fill, stderr_fill, cap,
                   c_pc, c_pending, stderr, argc, generator, made_dirs,
                   usage, exit_status, g_pc, g_swu, related_files,
                   enable_delta_caching, manifest, m_pc, present, swu_hashes,
                   delta_hashes, manifests, m_result>>

\* generate_delta step 4 and generate_statistics: three stat() calls and the
\* report written with open(stats_file, 'w'); an OSError is caught nowhere.
Statistics ==
    /\ pc = "Statistics"
    /\ steps' = Append(steps, "Statistics")
    /\ stats_target' = StatsTarget(recompressed_output, fs)
    /\ \E ok \in BOOLEAN :
         IF ok
         THEN /\ written' = written \cup {StatsFile}
              /\ log' = log \cup {"Statistics written"}
              /\ pc' = "Finish"
              /\ UNCHANGED <<result, failed>>
         ELSE /\ Raised
              /\ failed' = failed \cup {"Statistics"}
              /\ UNCHANGED <<written, log>>
    /\ UNCHANGED <<env, recompressed_output, fs, temp_extract, file_order,
                   original_file_order, file_list, recompress_result,
                   target_for_diff, invoked, compress_cmd, origTarget,
                   diffInput, d_pc, d_members, d_dir, d_iter, d_list, s_pc,
                   source_size, target_size, diff_size, compression_ratio,
                   statistics, p_pc, p_input, stdin_open, stdin_fill,
                   stderr_fill, cap, c_pc, c_pending, stderr, argc,
                   generator, made_dirs, usage, exit_status, g_pc, g_swu,
                   related_files, enable_delta_caching, manifest, m_pc,
                   present, swu_hashes, delta_hashes, manifests, m_result>>

\* generate_delta: the closing log lines and return True
Finish ==
    /\ pc = "Finish"
    /\ steps' = Append(steps, "Done")
    /\ result' = "True"
    /\ pc' = "Done"
    /\ UNCHANGED <<env, recompressed_output, fs, temp_extract, file_order,
                   original_file_order, file_list, recompress_result,
                   target_for_diff, stats_target, invoked, written, log,
                   failed, compress_cmd, origTarget, diffInput, d_pc,
                   d_members, d_dir, d_iter, d_list, s_pc, source_size,
                   target_size, diff_size, compression_ratio, statistics,
                   p_pc, p_input, stdin_open, stdin_fill, stderr_fill, cap,
                   c_pc, c_pending, stderr, argc, generator, made_dirs,
                   usage, exit_status, g_pc, g_swu, related_files,
                   enable_delta_caching, manifest, m_pc, present, swu_hashes,
                   delta_hashes, manifests, m_result>>

\* ------------------------------------------ two runs of the repackaging
\* The same archive is repackaged twice over the same extracted files; the
\* two runs differ in the order in which the scratch directory would be
\* iterated.

IterationOrders(S) ==
    {f \in [1..Cardinality(S) -> S] : \A x \in S : \E i \in DOMAIN f : f[i] = x}

RegularNames == {n \in Names : IsRegular(n)}

\* mutant: the member list is read from the directory, as find or ls would
RepackList_fromDirectory(members, dir, iter) == iter

\* recompress_swu: the member list fed to cpio -o, from the listing of the
\* archive and the presence of the files; the directory is never iterated
RepackList(members, dir, iter) ==
    VerifyFiles(EnforceFirst(ParseListing(members)), dir)

InitDet ==
    /\ InitPipeline
    /\ d_pc = "run1"
    /\ d_members \in Listings \ {<<>>}
    /\ d_dir \in SUBSET RegularNames
    /\ d_iter \in IterationOrders(d_dir) \X IterationOrders(d_dir)
    /\ d_list = <<<<>>, <<>>>>
    /\ StatsOff
    /\ PipeOff
    /\ GenOff
    /\ MainOff

\* first run of recompress_swu's list construction
DetRun1 ==
    /\ d_pc = "run1"
    /\ d_list' = [d_list EXCEPT ![1] = RepackList(d_members, d_dir, d_iter[1])]
    /\ d_pc' = "run2"
    /\ UNCHANGED <<pc, env, recompressed_output, fs, temp_extract,
                   file_order, original_file_order, file_list,
                   recompress_result, target_for_diff, stats_target, result,
                   steps, invoked, written, log, failed, compress_cmd,
                   origTarget, diffInput, d_members, d_dir, d_iter, s_pc,
                   source_size, target_size, diff_size, compression_ratio,
                   statistics, p_pc, p_input, stdin_open, stdin_fill,
                   stderr_fill, cap, c_pc, c_pending, stderr, argc,
                   generator, made_dirs, usage, exit_status, g_pc, g_swu,
                   related_files, enable_delta_caching, manifest, m_pc,
                   present, swu_hashes, delta_hashes, manifests, m_result>>

\* second run, over the same archive and the same files
DetRun2 ==
    /\ d_pc = "run2"
    /\ d_list' = [d_list EXCEPT ![2] = RepackList(d_members, d_dir, d_iter[2])]
    /\ d_pc' = "done"
    /\ UNCHANGED <<pc, env, recompressed_output, fs, temp_extract,
                   file_order, original_file_order, file_list,
                   recompress_result, target_for_diff, stats_target, result,
                   steps, invoked, written, log, failed, compress_cmd,
                   origTarget, diffInput, d_members, d_dir, d_iter, s_pc,
                   source_size, target_size, diff_size, compression_ratio,
                   statistics, p_pc, p_input, stdin_open, stdin_fill,
                   stderr_fill, cap, c_pc, c_pending, stderr, argc,
                   generator, made_dirs, usage, exit_status, g_pc, g_swu,
                   related_files, enable_delta_caching, manifest, m_pc,
                   present, swu_hashes, delta_hashes, manifests, m_result>>

NextDet ==
    \/ DetRun1
    \/ DetRun2

SpecDet == InitDet /\ [][NextDet]_vars

\* ------------------------------------------------- generate_statistics
\* The three sizes are what stat() returns for the files of a job that
\* reached Step 4 with all three files present.

MaxSize == 4

RECURSIVE Gcd(_, _)
Gcd(a, b) == IF b = 0 THEN a ELSE Gcd(b, a % b)

\* the quotient n / d (d > 0), held exactly and in lowest terms
Quotient(n, d) == LET g == Gcd(n, d) IN <<n \div g, d \div g>>

\* mutant: the quotient is not scaled to a percentage
CompressionRatio_notScaled(diff, target) ==
    IF target > 0 THEN Quotient(diff, target) ELSE <<0, 1>>

\* (diff_size / target_size) * 100 if target_size > 0 else 0
CompressionRatio(diff, target) ==
    IF target > 0
    THEN LET q == Quotient(diff, target) IN Quotient(q[1] * 100, q[2])
    ELSE <<0, 1>>

\* f"{compression_ratio:.2f}": the ratio in hundredths, rounded to nearest
\* (a quotient exactly half way between two hundredths needs a
\* denominator that is a multiple of 32 or of 3125)
Hundredths(q) == (200 * q[1] + q[2]) \div (2 * q[2])

InitStats ==
    /\ InitPipeline
    /\ DetOff
    /\ PipeOff
    /\ GenOff
    /\ MainOff
    /\ s_pc = "stat"
    /\ source_size \in 0..MaxSize
    /\ target_size \in 0..MaxSize
    /\ diff_size \in 0..MaxSize
    /\ compression_ratio = <<0, 1>>
    /\ statistics = <<>>

\* generate_statistics: the ratio and the lines written to statistics.txt
GenerateStatistics ==
    /\ s_pc = "stat"
    /\ compression_ratio' = CompressionRatio(diff_size, target_size)
    /\ statistics' = [source |-> source_size,
                      target |-> target_size,
                      delta |-> diff_size,
                      compression |-> Hundredths(compression_ratio'),
                      space_saved |-> target_size - diff_size]
    /\ s_pc' = "written"
    /\ UNCHANGED <<pc, env, recompressed_output, fs, temp_extract,
                   file_order, original_file_order, file_list,
                   recompress_result, target_for_diff, stats_target, result,
                   steps, invoked, written, log, failed, compress_cmd,
                   origTarget, diffInput, d_pc, d_members, d_dir, d_iter,
                   d_list, source_size, target_size, diff_size, p_pc,
                   p_input, stdin_open, stdin_fill, stderr_fill, cap, c_pc,
                   c_pending, stderr, argc, generator, made_dirs, usage,
                   exit_status, g_pc, g_swu, related_files,
                   enable_delta_caching, manifest, m_pc, present, swu_hashes,
                   delta_hashes, manifests, m_result>>

NextStats ==
    \/ GenerateStatistics

SpecStats == InitStats /\ [][NextStats]_vars

\* ------------------------------------- communicate() and the cpio -o child
\* recompress_swu hands the whole member list to Popen.communicate(), which
\* writes it to the child's stdin and reads the child's stderr from one
\* loop; the child's stdout is the output file.  The child reads one name
\* at a time and may write messages to stderr before it reads the next.

MaxLines == 3
PipeCap == 2
MaxErr == 2

InitPipe ==
    /\ InitPipeline
    /\ DetOff
    /\ StatsOff
    /\ GenOff
    /\ MainOff
    /\ p_pc = "communicate"
    /\ p_input \in 1..MaxLines
    /\ stdin_open = TRUE
    /\ stdin_fill = 0
    /\ stderr_fill = 0
    /\ cap \in (1..PipeCap) \X (1..PipeCap)
    /\ c_pc = "running"
    /\ c_pending = 0
    /\ stderr = 0

\* communicate(): stdin is writable and input remains; one line is written
\* and stdin is closed after the last.  Writing to a child that is gone is
\* a BrokenPipeError, which communicate() swallows, dropping the input.
ParentWrite ==
    /\ p_pc = "communicate"
    /\ stdin_open
    /\ p_input > 0
    /\ \/ /\ c_pc = "exited"
          /\ p_input' = 0
          /\ stdin_open' = FALSE
          /\ UNCHANGED stdin_fill
       \/ /\ c_pc # "exited"
          /\ stdin_fill < cap[1]
          /\ stdin_fill' = stdin_fill + 1
          /\ p_input' = p_input - 1
          /\ stdin_open' = (p_input > 1)
    /\ UNCHANGED <<pc, env, recompressed_output, fs, temp_extract,
                   file_order, original_file_order, file_list,
                   recompress_result, target_for_diff, stats_target, result,
                   steps, invoked, written, log, failed, compress_cmd,
                   origTarget, diffInput, d_pc, d_members, d_dir, d_iter,
                   d_list, s_pc, source_size, target_size, diff_size,
                   compression_ratio, statistics, p_pc, stderr_fill, cap,
                   c_pc, c_pending, stderr, argc, generator, made_dirs,
                   usage, exit_status, g_pc, g_swu, related_files,
                   enable_delta_caching, manifest, m_pc, present, swu_hashes,
                   delta_hashes, manifests, m_result>>

\* mutant: stderr is read only after all the input has been written, as
\* proc.stdin.write(...) followed by proc.stderr.read() would
ParentReadErr_afterWrite ==
    /\ p_pc = "communicate"
    /\ p_input = 0
    /\ stderr_fill > 0
    /\ stderr' = stderr + stderr_fill
    /\ stderr_fill' = 0
    /\ UNCHANGED <<pc, env, recompressed_output, fs, temp_extract,
                   file_order, original_file_order, file_list,
                   recompress_result, target_for_diff, stats_target, result,
                   steps, invoked, written, log, failed, compress_cmd,
                   origTarget, diffInput, d_pc, d_members, d_dir, d_iter,
                   d_list, s_pc, source_size, target_size, diff_size,
                   compression_ratio, statistics, p_pc, p_input, stdin_open,
                   stdin_fill, cap, c_pc, c_pending, argc, generator,
                   made_dirs, usage, exit_status, g_pc, g_swu, related_files,
                   enable_delta_caching, manifest, m_pc, present, swu_hashes,
                   delta_hashes, manifests, m_result>>

\* communicate(): stderr is readable; everything in the pipe is read,
\* whether or not input remains to be written
ParentReadErr ==
    /\ p_pc = "communicate"
    /\ stderr_fill > 0
    /\ stderr' = stderr + stderr_fill
    /\ stderr_fill' = 0
    /\ UNCHANGED <<pc, env, recompressed_output, fs, temp_extract,
                   file_order, original_file_order, file_list,
                   recompress_result, target_for_diff, stats_target, result,
                   steps, invoked, written, log, failed, compress_cmd,
                   origTarget, diffInput, d_pc, d_members, d_dir, d_iter,
                   d_list, s_pc, source_size, target_size, diff_size,
                   compression_ratio, statistics, p_pc, p_input, stdin_open,
                   stdin_fill, cap, c_pc, c_pending, argc, generator,
                   made_dirs, usage, exit_status, g_pc, g_swu, related_files,
                   enable_delta_caching, manifest, m_pc, present, swu_hashes,
                   delta_hashes, manifests, m_result>>

\* communicate(): stdin is closed and stderr is at end of file; wait()
ParentEOF ==
    /\ p_pc = "communicate"
    /\ ~stdin_open
    /\ c_pc = "exited"
    /\ stderr_fill = 0
    /\ p_pc' = "done"
    /\ UNCHANGED <<pc, env, recompressed_output, fs, temp_extract,
                   file_order, original_file_order, file_list,
                   recompress_result, target_for_diff, stats_target, result,
                   steps, invoked, written, log, failed, compress_cmd,
                   origTarget, diffInput, d_pc, d_members, d_dir, d_iter,
                   d_list, s_pc, source_size, target_size, diff_size,
                   compression_ratio, statistics, p_input, stdin_open,
                   stdin_fill, stderr_fill, cap, c_pc, c_pending, stderr,
                   argc, generator, made_dirs, usage, exit_status, g_pc,
                   g_swu, related_files, enable_delta_caching, manifest,
                   m_pc, present, swu_hashes, delta_hashes, manifests,
                   m_result>>

\* child: reads the next name and has up to MaxErr messages to write for it
ChildRead ==
    /\ c_pc = "running"
    /\ c_pending = 0
    /\ stdin_fill > 0
    /\ stdin_fill' = stdin_fill - 1
    /\ \E k \in 0..MaxErr : c_pending' = k
    /\ UNCHANGED <<pc, env, recompressed_output, fs, temp_extract,
                   file_order, original_file_order, file_list,
                   recompress_result, target_for_diff, stats_target, result,
                   steps, invoked, written, log, failed, compress_cmd,
                   origTarget, diffInput, d_pc, d_members, d_dir, d_iter,
                   d_list, s_pc, source_size, target_size, diff_size,
                   compression_ratio, statistics, p_pc, p_input, stdin_open,
                   stderr_fill, cap, c_pc, stderr, argc, generator,
                   made_dirs, usage, exit_status, g_pc, g_swu, related_files,
                   enable_delta_caching, manifest, m_pc, present, swu_hashes,
                   delta_hashes, manifests, m_result>>

\* child: writes one message to stderr if the pipe has room
ChildWriteErr ==
    /\ c_pc \in {"running", "finishing"}
    /\ c_pending > 0
    /\ stderr_fill < cap[2]
    /\ stderr_fill' = stderr_fill + 1
    /\ c_pending' = c_pending - 1
    /\ UNCHANGED <<pc, env, recompressed_output, fs, temp_extract,
                   file_order, original_file_order, file_list,
                   recompress_result, target_for_diff, stats_target, result,
                   steps, invoked, written, log, failed, compress_cmd,
                   origTarget, diffInput, d_pc, d_members, d_dir, d_iter,
                   d_list, s_pc, source_size, target_size, diff_size,
                   compression_ratio, statistics, p_pc, p_input, stdin_open,
                   stdin_fill, cap, c_pc, stderr, argc, generator, made_dirs,
                   usage, exit_status, g_pc, g_swu, related_files,
                   enable_delta_caching, manifest, m_pc, present, swu_hashes,
                   delta_hashes, manifests, m_result>>

\* child: end of input; cpio has its block count left to write to stderr
ChildEOF ==
    /\ c_pc = "running"
    /\ c_pending = 0
    /\ stdin_fill = 0
    /\ ~stdin_open
    /\ c_pc' = "finishing"
    /\ c_pending' = 1
    /\ UNCHANGED <<pc, env, recompressed_output, fs, temp_extract,
                   file_order, original_file_order, file_list,
                   recompress_result, target_for_diff, stats_target, result,
                   steps, invoked, written, log, failed, compress_cmd,
                   origTarget, diffInput, d_pc, d_members, d_dir, d_iter,
                   d_list, s_pc, source_size, target_size, diff_size,
                   compression_ratio, statistics, p_pc, p_input, stdin_open,
                   stdin_fill, stderr_fill, cap, stderr, argc, generator,
                   made_dirs, usage, exit_status, g_pc, g_swu, related_files,
                   enable_delta_caching, manifest, m_pc, present, swu_hashes,
                   delta_hashes, manifests, m_result>>

\* child: exits once everything is written
ChildExit ==
    /\ c_pc = "finishing"
    /\ c_pending = 0
    /\ c_pc' = "exited"
    /\ UNCHANGED <<pc, env, recompressed_output, fs, temp_extract,
                   file_order, original_file_order, file_list,
                   recompress_result, target_for_diff, stats_target, result,
                   steps, invoked, written, log, failed, compress_cmd,
                   origTarget, diffInput, d_pc, d_members, d_dir, d_iter,
                   d_list, s_pc, source_size, target_size, diff_size,
                   compression_ratio, statistics, p_pc, p_input, stdin_open,
                   stdin_fill, stderr_fill, cap, c_pending, stderr, argc,
                   generator, made_dirs, usage, exit_status, g_pc, g_swu,
                   related_files, enable_delta_caching, manifest, m_pc,
                   present, swu_hashes, delta_hashes, manifests, m_result>>

\* child: dies before reading all its input; the pipes are closed
ChildCrash ==
    /\ c_pc = "running"
    /\ c_pc' = "exited"
    /\ c_pending' = 0
    /\ stdin_fill' = 0
    /\ UNCHANGED <<pc, env, recompressed_output, fs, temp_extract,
                   file_order, original_file_order, file_list,
                   recompress_result, target_for_diff, stats_target, result,
                   steps, invoked, written, log, failed, compress_cmd,
                   origTarget, diffInput, d_pc, d_members, d_dir, d_iter,
                   d_list, s_pc, source_size, target_size, diff_size,
                   compression_ratio, statistics, p_pc, p_input, stdin_open,
                   stderr_fill, cap, stderr, argc, generator, made_dirs,
                   usage, exit_status, g_pc, g_swu, related_files,
                   enable_delta_caching, manifest, m_pc, present, swu_hashes,
                   delta_hashes, manifests, m_result>>

NextPipe ==
    \/ ParentWrite
    \/ ParentReadErr
    \/ ParentEOF
    \/ ChildRead
    \/ ChildWriteErr
    \/ ChildEOF
    \/ ChildExit
    \/ ChildCrash

SpecPipe == InitPipe /\ [][NextPipe]_vars

\* --------------------------------------------- generate_import_manifest
\* Of the manifest only the update version and the "files" array are kept.
\* The hash and the size of a file are known by the file they were taken
\* from.  An argument that may be None is a record with a given flag.

MaxDeltas == 2

ScriptFile == "yocto-a-b-update.sh"

SwuFiles ==
    [v1 |-> "adu-update-image-v1.0.0-recompressed.swu",
     v2 |-> "adu-update-image-v2.0.0-recompressed.swu",
     v3 |-> "adu-update-image-v3.0.0-recompressed.swu"]

DeltaFiles ==
    [v1_to_v2 |-> "adu-delta-v1-to-v2.diff",
     v1_to_v3 |-> "adu-delta-v1-to-v3.diff",
     v2_to_v3 |-> "adu-delta-v2-to-v3.diff"]

\* the version strings main passes for the three updates
Versions == [v1 |-> "1.0.0", v2 |-> "2.0.0", v3 |-> "3.0.0"]

\* calculate_sha256_base64(filepath)
HashOf(f) == <<"sha256", f>>

\* get_file_size(filepath)
SizeOf(f) == <<"size", f>>

DeltaHandler == [id |-> "microsoft/delta:1"]

FileEntry(name, size, hash) ==
    [filename |-> name, sizeInBytes |-> size, hashes |-> [sha256 |-> hash]]

RelatedEntry(rf) ==
    [filename |-> rf.filename,
     sizeInBytes |-> rf.size,
     hashes |-> [sha256 |-> rf.hash],
     properties |-> [sourceFileHashAlgorithm |-> "sha256",
                     sourceFileHash |-> rf.sourceHash]]

\* if related_files and len(related_files) > 0
HasRelated(rf) == rf.given /\ Len(rf.items) > 0

\* mutant: the delta handler is also attached whenever deltas are listed
DeltaHandlerKeys_withRelated(rf, caching) ==
    IF caching \/ HasRelated(rf) THEN ("deltaHandler" :> DeltaHandler)
    ELSE <<>>

\* if enable_delta_caching: manifest["files"][0]["deltaHandler"] = ...
DeltaHandlerKeys(rf, caching) ==
    IF caching THEN ("deltaHandler" :> DeltaHandler) ELSE <<>>

\* manifest["files"][0]["relatedFiles"], ["downloadHandler"]
RelatedKeys(rf) ==
    IF HasRelated(rf)
    THEN ("relatedFiles" :> [i \in DOMAIN rf.items |-> RelatedEntry(rf.items[i])])
             @@ ("downloadHandler" :> DeltaHandler)
    ELSE <<>>

generate_import_manifest(version, swu_file, swu_hash, swu_size, script_file, script_hash, script_size, rf, caching) ==
    [version |-> version,
     files |-> << FileEntry(swu_file, swu_size, swu_hash)
                      @@ RelatedKeys(rf) @@ DeltaHandlerKeys(rf, caching),
                  FileEntry(script_file, script_size, script_hash) >>]

DeltaKeys == {"v1_to_v2", "v1_to_v3", "v2_to_v3"}

SwuKeys == {"v1", "v2", "v3"}

\* a related_files item as main builds it, for a delta and a source SWU
DeltaInfo(d, src) ==
    [filename |-> DeltaFiles[d], hash |-> HashOf(DeltaFiles[d]),
     size |-> SizeOf(DeltaFiles[d]), sourceHash |-> HashOf(SwuFiles[src])]

RelatedArgs ==
    {[given |-> FALSE, items |-> <<>>]} \cup
    {[given |-> TRUE, items |-> l] :
        l \in UNION {[1..n -> {DeltaInfo(d, "v1") : d \in DeltaKeys}] :
                        n \in 0..MaxDeltas}}

InitGen ==
    /\ InitPipeline
    /\ DetOff
    /\ StatsOff
    /\ PipeOff
    /\ MainOff
    /\ g_pc = "call"
    /\ g_swu \in SwuKeys
    /\ related_files \in RelatedArgs
    /\ enable_delta_caching \in BOOLEAN
    /\ manifest = <<>>

\* one call of generate_import_manifest
GenerateManifest ==
    /\ g_pc = "call"
    /\ manifest' = generate_import_manifest(
                       Versions[g_swu], SwuFiles[g_swu], HashOf(SwuFiles[g_swu]),
                       SizeOf(SwuFiles[g_swu]), ScriptFile,
                       HashOf(ScriptFile), SizeOf(ScriptFile),
                       related_files, enable_delta_caching)
    /\ g_pc' = "returned"
    /\ UNCHANGED <<pc, env, recompressed_output, fs, temp_extract,
                   file_order, original_file_order, file_list,
                   recompress_result, target_for_diff, stats_target, result,
                   steps, invoked, written, log, failed, compress_cmd,
                   origTarget, diffInput, d_pc, d_members, d_dir, d_iter,
                   d_list, s_pc, source_size, target_size, diff_size,
                   compression_ratio, statistics, p_pc, p_input, stdin_open,
                   stdin_fill, stderr_fill, cap, c_pc, c_pending, stderr,
                   argc, generator, made_dirs, usage, exit_status, g_swu,
                   related_files, enable_delta_caching, m_pc, present,
                   swu_hashes, delta_hashes, manifests, m_result>>

NextGen ==
    \/ GenerateManifest

SpecGen == InitGen /\ [][NextGen]_vars

\* ------------------------------------------------- manifest generator main
AllImages ==
    {ScriptFile} \cup {SwuFiles[k] : k \in SwuKeys}
                 \cup {DeltaFiles[k] : k \in DeltaKeys}

\* the dict built by a loop that hashes each file that exists
FoundHashes(files, keys, dir) ==
    [k \in {x \in keys : files[x] \in dir} |-> HashOf(files[k])]

InitMain ==
    /\ InitPipeline
    /\ DetOff
    /\ StatsOff
    /\ PipeOff
    /\ GenOff
    /\ m_pc = "script"
    /\ present \in SUBSET AllImages
    /\ swu_hashes = <<>>
    /\ delta_hashes = <<>>
    /\ manifests = <<>>
    /\ m_result = "none"

\* main: the script file must exist, or main exits with status 1
FindScript ==
    /\ m_pc = "script"
    /\ IF ScriptFile \in present
       THEN /\ m_pc' = "hash"
            /\ UNCHANGED m_result
       ELSE /\ m_pc' = "ended"
            /\ m_result' = "exit 1"
    /\ UNCHANGED <<pc, env, recompressed_output, fs, temp_extract,
                   file_order, original_file_order, file_list,
                   recompress_result, target_for_diff, stats_target, result,
                   steps, invoked, written, log, failed, compress_cmd,
                   origTarget, diffInput, d_pc, d_members, d_dir, d_iter,
                   d_list, s_pc, source_size, target_size, diff_size,
                   compression_ratio, statistics, p_pc, p_input, stdin_open,
                   stdin_fill, stderr_fill, cap, c_pc, c_pending, stderr,
                   argc, generator, made_dirs, usage, exit_status, g_pc,
                   g_swu, related_files, enable_delta_caching, manifest,
                   present, swu_hashes, delta_hashes, manifests>>

\* main: the two loops over swu_files and delta_files
HashFiles ==
    /\ m_pc = "hash"
    /\ swu_hashes' = FoundHashes(SwuFiles, SwuKeys, present)
    /\ delta_hashes' = FoundHashes(DeltaFiles, DeltaKeys, present)
    /\ m_pc' = "v1"
    /\ UNCHANGED <<pc, env, recompressed_output, fs, temp_extract,
                   file_order, original_file_order, file_list,
                   recompress_result, target_for_diff, stats_target, result,
                   steps, invoked, written, log, failed, compress_cmd,
                   origTarget, diffInput, d_pc, d_members, d_dir, d_iter,
                   d_list, s_pc, source_size, target_size, diff_size,
                   compression_ratio, statistics, p_pc, p_input, stdin_open,
                   stdin_fill, stderr_fill, cap, c_pc, c_pending, stderr,
                   argc, generator, made_dirs, usage, exit_status, g_pc,
                   g_swu, related_files, enable_delta_caching, manifest,
                   present, manifests, m_result>>

\* main: a manifest is written for version v with the deltas listed in
\* deltas, each <<delta key, source SWU key>>, when the SWU of v and all
\* these deltas were found.  swu_hashes[src] is read without a test: for a
\* source SWU that was not found it raises KeyError, which nothing catches.
WriteManifest(v, deltas, caching, next) ==
    IF v \in DOMAIN swu_hashes
          /\ \A i \in DOMAIN deltas : deltas[i][1] \in DOMAIN delta_hashes
    THEN IF \A i \in DOMAIN deltas : deltas[i][2] \in DOMAIN swu_hashes
         THEN /\ manifests' = (v :> generate_import_manifest(
                                   Versions[v], SwuFiles[v], swu_hashes[v],
                                   SizeOf(SwuFiles[v]), ScriptFile,
                                   HashOf(ScriptFile), SizeOf(ScriptFile),
                                   [given |-> deltas # <<>>,
                                    items |->
                                      [i \in DOMAIN deltas |->
                                        [filename |-> DeltaFiles[deltas[i][1]],
                                         hash |-> delta_hashes[deltas[i][1]],
                                         size |-> SizeOf(DeltaFiles[deltas[i][1]]),
                                         sourceHash |-> swu_hashes[deltas[i][2]]]]],
                                   caching))
                               @@ manifests
              /\ m_pc' = next
              /\ UNCHANGED m_result
         ELSE /\ m_pc' = "ended"
              /\ m_result' = "KeyError"
              /\ UNCHANGED manifests
    ELSE /\ m_pc' = next
         /\ UNCHANGED <<manifests, m_result>>

\* main: manifest for v1.0.0, base update with delta caching
ManifestV1 ==
    /\ m_pc = "v1"
    /\ WriteManifest("v1", <<>>, TRUE, "v2")
    /\ UNCHANGED <<pc, env, recompressed_output, fs, temp_extract,
                   file_order, original_file_order, file_list,
                   recompress_result, target_for_diff, stats_target, result,
                   steps, invoked, written, log, failed, compress_cmd,
                   origTarget, diffInput, d_pc, d_members, d_dir, d_iter,
                   d_list, s_pc, source_size, target_size, diff_size,
                   compression_ratio, statistics, p_pc, p_input, stdin_open,
                   stdin_fill, stderr_fill, cap, c_pc, c_pending, stderr,
                   argc, generator, made_dirs, usage, exit_status, g_pc,
                   g_swu, related_files, enable_delta_caching, manifest,
                   present, swu_hashes, delta_hashes>>

\* main: manifest for v2.0.0, delta from v1
ManifestV2 ==
    /\ m_pc = "v2"
    /\ WriteManifest("v2", << <<"v1_to_v2", "v1">> >>, FALSE, "v3")
    /\ UNCHANGED <<pc, env, recompressed_output, fs, temp_extract,
                   file_order, original_file_order, file_list,
                   recompress_result, target_for_diff, stats_target, result,
                   steps, invoked, written, log, failed, compress_cmd,
                   origTarget, diffInput, d_pc, d_members, d_dir, d_iter,
                   d_list, s_pc, source_size, target_size, diff_size,
                   compression_ratio, statistics, p_pc, p_input, stdin_open,
                   stdin_fill, stderr_fill, cap, c_pc, c_pending, stderr,
                   argc, generator, made_dirs, usage, exit_status, g_pc,
                   g_swu, related_files, enable_delta_caching, manifest,
                   present, swu_hashes, delta_hashes>>

\* main: manifest for v3.0.0, deltas from v1 and v2
ManifestV3 ==
    /\ m_pc = "v3"
    /\ WriteManifest("v3", << <<"v1_to_v3", "v1">>, <<"v2_to_v3", "v2">> >>,
                     FALSE, "complete")
    /\ UNCHANGED <<pc, env, recompressed_output, fs, temp_extract,
                   file_order, original_file_order, file_list,
                   recompress_result, target_for_diff, stats_target, result,
                   steps, invoked, written, log, failed, compress_cmd,
                   origTarget, diffInput, d_pc, d_members, d_dir, d_iter,
                   d_list, s_pc, source_size, target_size, diff_size,
                   compression_ratio, statistics, p_pc, p_input, stdin_open,
                   stdin_fill, stderr_fill, cap, c_pc, c_pending, stderr,
                   argc, generator, made_dirs, usage, exit_status, g_pc,
                   g_swu, related_files, enable_delta_caching, manifest,
                   present, swu_hashes, delta_hashes>>

\* main returns
MainReturn ==
    /\ m_pc = "complete"
    /\ m_pc' = "ended"
    /\ m_result' = "exit 0"
    /\ UNCHANGED <<pc, env, recompressed_output, fs, temp_extract,
                   file_order, original_file_order, file_list,
                   recompress_result, target_for_diff, stats_target, result,
                   steps, invoked, written, log, failed, compress_cmd,
                   origTarget, diffInput, d_pc, d_members, d_dir, d_iter,
                   d_list, s_pc, source_size, target_size, diff_size,
                   compression_ratio, statistics, p_pc, p_input, stdin_open,
                   stdin_fill, stderr_fill, cap, c_pc, c_pending, stderr,
                   argc, generator, made_dirs, usage, exit_status, g_pc,
                   g_swu, related_files, enable_delta_caching, manifest,
                   present, swu_hashes, delta_hashes, manifests>>

NextMain ==
    \/ FindScript
    \/ HashFiles
    \/ ManifestV1
    \/ ManifestV2
    \/ ManifestV3
    \/ MainReturn

SpecMain == InitMain /\ [][NextMain]_vars

Next ==
    \/ NewJob
    \/ SysExit
    \/ SizeProbe
    \/ Decide
    \/ ListArchive
    \/ ExtractArchive
    \/ EnforceOrder
    \/ Verify
    \/ BuildArchive
    \/ ChooseTarget
    \/ Diff
    \/ Compress
    \/ Statistics
    \/ Finish
    \/ Exit

Spec == Init /\ [][Next]_vars

TypeOK ==
    /\ pc \in {"idle", "SizeProbe", "Decide", "List", "Extract", "Order",
               "Verify", "Build", "ChooseTarget", "Diff", "Compress",
               "Statistics", "Finish", "Done", "Failed", "Usage"}
    /\ argc \in 0..MaxArgs
    /\ generator \in {"None", "SimpleDeltaGen"}
    /\ exit_status \in {"none", "0", "1"}
    /\ env \in Envs
    /\ recompressed_output \in {"None", RecompPath, TargetPath}
    /\ temp_extract \subseteq Names
    /\ recompress_result \in {"none", "True", "False", "raised"}
    /\ target_for_diff \in {"unset", TargetPath, RecompPath}
    /\ stats_target \in {"unset", TargetPath, RecompPath}
    /\ result \in {"none", "True", "False", "raised"}
    /\ compress_cmd.tool \in {"none", "zstd", "gzip"}

\* ------------------------------------------------- vocabulary of the claims

Terminal == pc \in {"Done", "Failed"}

Entered(s) == Contains(steps, s)

IsPrefix(a, b) == Len(a) <= Len(b) /\ SubSeq(b, 1, Len(a)) = a

Count(seq, x) == Cardinality({i \in 1..Len(seq) : seq[i] = x})

IsPermutation(a, b) ==
    Len(a) = Len(b) /\ \A n \in AllNames : Count(a, n) = Count(b, n)

Others(seq) == SelectSeq(seq, LAMBDA n : n # ControlMember)

PipelineOrders ==
    {<<"SizeProbe", d, "Diff", "Compress", "Statistics", "Done">> :
        d \in {"Recompress", "SkipRecompress"}}

RecompressFailed == recompress_result \in {"False", "raised"}

\* ------------------------------------------------------------------ C1
\* C1: whenever recompression was requested and recompress_swu failed, the
\* job went on to the Diff step, create_bsdiff received the original target
\* path, and the file at that path is the target as it was before the
\* recompression was attempted.
C1_FallbackUsesOriginalTarget ==
    (Terminal /\ RecompressFailed) =>
        /\ Entered("Diff")
        /\ target_for_diff = TargetPath
        /\ diffInput = origTarget

\* ------------------------------------------------------------------ C2
\* C2: the target whose size generate_statistics reports is the file that
\* was passed to create_bsdiff as target_for_diff.
C2_StatisticsUseDiffTarget ==
    stats_target # "unset" => stats_target = target_for_diff

\* ------------------------------------------------------------------ C3
\* C3: recompression requested, cpio missing from PATH, bsdiff available,
\* source and target present, and neither diff nor compression nor the
\* statistics failing: the recompression step fails, the job falls back to
\* the original target and generate_delta reports success.
C3_MissingCpioFallsBack ==
    ( /\ Terminal
      /\ RecompressRequested(recompressed_output)
      /\ ~env.cpio
      /\ env.bsdiff
      /\ failed \cap {"SizeProbe", "Diff", "Compress", "Statistics"} = {} )
    =>
        /\ recompress_result = "False"
        /\ target_for_diff = TargetPath
        /\ result = "True"

\* ------------------------------------------------------------------ C4
\* C4: when the Diff step or the Compress step failed the job ends Failed
\* (generate_delta returns False; for an I/O error of the gzip fallback it
\* ends on the exception) and never reports success; a failed Diff step
\* makes it return False; it reports success only if bsdiff ran and wrote
\* the diff and a compressor ran and wrote the delta in this job.
C4_DiffOrCompressFailureFailsJob ==
    /\ failed \cap {"Diff", "Compress"} # {} =>
           pc = "Failed" /\ result \in {"False", "raised"}
    /\ "Diff" \in failed => result = "False"
    /\ result = "True" =>
           /\ Entered("Diff") /\ Entered("Compress")
           /\ failed \cap {"Diff", "Compress"} = {}
           /\ "bsdiff" \in invoked
           /\ invoked \cap {"zstd", "gzip -6"} # {}
           /\ {TempDiff, OutputDiff} \subseteq written

C4_Witness ==
    pc = "Failed" /\ "Compress" \in failed /\ result = "False"
        /\ "zstd" \in invoked

\* ------------------------------------------------------------------ C5
\* C5: with bsdiff not on PATH the tool is never run, the Compress and
\* Statistics steps are never entered, the job writes neither the temporary
\* diff nor the output delta, and once the Diff step is entered the job has
\* failed with the absence logged.
C5_MissingBsdiffIsDetectedFirst ==
    (pc # "idle" /\ ~env.bsdiff) =>
        /\ "bsdiff" \notin invoked
        /\ ~Entered("Compress") /\ ~Entered("Statistics")
        /\ TempDiff \notin written /\ OutputDiff \notin written
        /\ Terminal => pc = "Failed"
        /\ Entered("Diff") =>
               /\ pc = "Failed" /\ result = "False"
               /\ "ERROR: bsdiff not found in PATH" \in log

C5_Witness ==
    ~env.bsdiff /\ Entered("Diff") /\ pc = "Failed" /\ result = "False"

\* ------------------------------------------------------------------ C6
\* C6: the steps a job has entered are always a prefix of SizeProbe,
\* Recompress or SkipRecompress, Diff, Compress, Statistics, Done; Diff is
\* entered only with the recompression decision made, Compress only after a
\* successful diff, Statistics only after a successful compression, and the
\* job is Done only with all six steps entered.
C6_StepsInOrder ==
    /\ \E o \in PipelineOrders : IsPrefix(steps, o)
    /\ (pc = "Diff" \/ Entered("Diff")) =>
           /\ target_for_diff # "unset"
           /\ Entered("Recompress") => recompress_result \in {"True", "False"}
           /\ Entered("SkipRecompress") => recompress_result = "none"
    /\ (pc = "Compress" \/ Entered("Compress")) =>
           /\ Entered("Diff") /\ "Diff" \notin failed
           /\ "bsdiff" \in invoked /\ TempDiff \in written
    /\ (pc = "Statistics" \/ Entered("Statistics")) =>
           /\ Entered("Compress") /\ "Compress" \notin failed
           /\ OutputDiff \in written
    /\ pc = "Done" <=> Entered("Done")
    /\ pc = "Done" => steps \in PipelineOrders

C6_Witness ==
    pc = "Done" /\ Entered("Recompress") /\ recompress_result = "True"

\* ------------------------------------------------------------------ C7
\* C7: the Recompress step is entered, and recompress_swu called, exactly
\* when the job has a recompressed-output path; after a successful
\* recompression create_bsdiff receives the recompressed output, the
\* archive just rebuilt; without a path no cpio is run, nothing is written
\* at a recompressed-output path and create_bsdiff receives the original
\* target.
C7_RecompressIffRequested ==
    /\ Len(steps) >= 2 =>
           (Entered("Recompress") <=> recompressed_output # "None")
    /\ "recompress_swu" \in invoked <=> Entered("Recompress")
    /\ (Entered("Diff") /\ recompress_result = "True") =>
           /\ target_for_diff = recompressed_output
           /\ diffInput = Rebuilt(file_list)
    /\ recompressed_output = "None" =>
           /\ invoked \cap {"recompress_swu", "cpio -it", "cpio -idmv",
                            "cpio -o"} = {}
           /\ written \cap {RecompPath, TargetPath} = {}
           /\ fs[TargetPath] = origTarget
           /\ Entered("Diff") =>
                  target_for_diff = TargetPath /\ diffInput = origTarget

C7_Witness ==
    /\ Entered("Diff") /\ recompress_result = "True"
    /\ recompressed_output = RecompPath /\ target_for_diff = RecompPath

\* ------------------------------------------------------------------ C8
\* C8: with diff and compression done, a failure while computing or writing
\* the statistics report does not change the outcome: generate_delta
\* reports success.
C8_StatisticsFailureIsNotFatal ==
    (Terminal /\ "Statistics" \in failed) => result = "True"

\* ------------------------------------------------------------------ C9
\* C9: for a raw listing that contains the control member, the corrected
\* order list has it at position 0, is a permutation of the raw listing and
\* keeps the other members in their relative order; a raw listing that
\* starts with the control member is left unchanged.
C9_ControlMemberMovedToFront ==
    (original_file_order # <<>> /\ file_order # <<>>) =>
        /\ Contains(file_order, ControlMember) =>
               /\ original_file_order[1] = ControlMember
               /\ IsPermutation(file_order, original_file_order)
               /\ Others(original_file_order) = Others(file_order)
        /\ file_order[1] = ControlMember => original_file_order = file_order

C9_Witness ==
    /\ file_order = <<ImageMember, DirMember, ControlMember>>
    /\ original_file_order = <<ControlMember, ImageMember, DirMember>>

\* ----------------------------------------------------------------- C10
\* C10: when the control member is absent from the raw listing, repackaging
\* proceeds with a warning logged, and every name in the member list used
\* to build the archive is a name of the raw listing, in raw order.
C10_AbsentControlMemberAddsNothing ==
    (pc = "Build" /\ ~Contains(file_order, ControlMember)) =>
        /\ "WARNING: sw-description is not first" \in log
        /\ \A i \in 1..Len(file_list) : Contains(file_order, file_list[i])
        /\ file_list = VerifyFiles(file_order, temp_extract)

\* ----------------------------------------------------------------- C11
RECURSIVE IsSubsequence(_, _)
IsSubsequence(a, b) ==
    IF a = <<>> THEN TRUE
    ELSE IF b = <<>> THEN FALSE
    ELSE IF a[1] = b[1] THEN IsSubsequence(Tail(a), Tail(b))
    ELSE IsSubsequence(a, Tail(b))

\* C11: the member list fed to cpio -o is the subsequence of the corrected
\* order list made of every entry that is a regular file in the scratch
\* directory; a missing entry is logged and skipped; when nothing is left
\* recompress_swu returns False and cpio -o is never run.
C11_VerifiedListIsFilteredOrder ==
    /\ pc = "Build" =>
           /\ IsSubsequence(file_list, original_file_order)
           /\ \A n \in AllNames :
                  Count(file_list, n) =
                      IF n \in temp_extract
                      THEN Count(original_file_order, n) ELSE 0
           /\ file_list # <<>>
           /\ recompress_result = "none" /\ result = "none"
           /\ file_list # original_file_order =>
                  "WARNING: not found on disk, skipping" \in log
    /\ (original_file_order # <<>> /\ pc # "Verify" /\ file_list = <<>>) =>
           /\ recompress_result = "False"
           /\ "ERROR: No files to recompress!" \in log
           /\ "cpio -o" \notin invoked
           /\ recompressed_output \notin written
           /\ \A i \in 1..Len(original_file_order) :
                  original_file_order[i] \notin temp_extract
    /\ "ERROR: No files to recompress!" \in log => file_list = <<>>

C11_Witness ==
    /\ pc = "Build"
    /\ original_file_order = <<ControlMember, DirMember, ImageMember>>
    /\ file_list = <<ControlMember, ImageMember>>

C11_WitnessEmpty ==
    /\ pc = "ChooseTarget"
    /\ original_file_order = <<ControlMember, DirMember>>
    /\ "ERROR: No files to recompress!" \in log

\* ----------------------------------------------------------------- C12
\* C12: round trip.  For an archive whose stored order starts with the
\* control member and whose members are all regular files that the
\* extraction places on disk, a successful recompress_swu writes an archive
\* whose stored member order is exactly the original one.
C12_RoundTripKeepsOrder ==
    ( /\ recompress_result = "True"
      /\ origTarget.kind = "orig"
      /\ origTarget.members # <<>>
      /\ origTarget.members[1] = ControlMember
      /\ \A i \in 1..Len(origTarget.members) :
             IsRegular(origTarget.members[i]) )
    =>
        /\ fs[recompressed_output].kind = "rebuilt"
        /\ fs[recompressed_output].members = origTarget.members

C14_ListingFailureIsNotFatal ==
    ("List" \in failed /\ pc # "Extract") =>
        /\ file_order = <<>>
        /\ "WARNING: Failed to list files" \in log
        /\ "cpio -idmv" \in invoked

\* ----------------------------------------------------------------- C15
\* C15: recompress_swu returns False whenever the extraction fails or the
\* archive construction fails (non-zero exit, or an error while opening or
\* writing its streams); after a failed extraction cpio -o is never run and
\* nothing is written at the recompressed-output path.
C15_ExtractOrBuildFailureFailsRepackaging ==
    /\ "Extract" \in failed =>
           /\ recompress_result = "False"
           /\ "ERROR: Failed to extract SWU" \in log
           /\ "cpio -o" \notin invoked
           /\ recompressed_output \notin written
           /\ original_file_order = <<>> /\ file_list = <<>>
    /\ "Build" \in failed =>
           /\ recompress_result = "False"
           /\ pc \notin {"Order", "Verify", "Build"}
    /\ recompress_result = "raised" =>
           /\ pc = "Failed"
           /\ "cpio -idmv" \notin invoked /\ "cpio -o" \notin invoked
           /\ recompressed_output \notin written
    /\ (Entered("Diff") /\ failed \cap {"Extract", "Build"} # {}) =>
           target_for_diff = TargetPath

C15_Witness ==
    /\ "Extract" \in failed /\ recompress_result = "False"
    /\ file_order # <<>> /\ Entered("Diff")

C15_WitnessBuild ==
    "Build" \in failed /\ "cpio -o" \in invoked /\ Entered("Diff")

\* ----------------------------------------------------------------- C16
\* C16: the SizeProbe step never fails: whatever the source and target
\* paths, a job that has ended went past SizeProbe to the recompression
\* decision.
C16_SizeProbeNeverFails ==
    (Terminal /\ Entered("SizeProbe")) =>
        /\ "SizeProbe" \notin failed
        /\ Entered("Recompress") \/ Entered("SkipRecompress")

\* ----------------------------------------------------------------- C17
\* C17: every failure of the Diff or Compress step (missing tool, non-zero
\* exit, I/O error, the gzip fallback included) reaches generate_delta as
\* a returned False with a log entry; no exception leaves create_bsdiff,
\* compress_with_zstd or compress_with_gzip.
C17_DiffCompressFailuresAreReturned ==
    failed \cap {"Diff", "Compress"} # {} =>
        /\ result = "False"
        /\ log \cap {"ERROR: bsdiff not found in PATH",
                     "ERROR: Command failed"} # {}

\* ----------------------------------------------------------------- C18
\* C18: with zstd not on PATH the Compress step never runs zstd, compresses
\* with gzip at level 6 whatever level was asked for, writes the same
\* output path, and a successful compression lets the job go on to the
\* statistics exactly as with zstd.
C18_GzipFallbackIsTransparent ==
    (pc # "idle" /\ ~env.zstd) =>
        /\ "zstd" \notin invoked
        /\ Entered("Compress") =>
               /\ compress_cmd = [tool |-> "gzip", level |-> 6,
                                  output |-> OutputDiff]
               /\ "gzip -6" \in invoked
               /\ "WARNING: zstd not found, using gzip" \in log
        /\ (Entered("Compress") /\ "Compress" \notin failed) =>
               /\ OutputDiff \in written
               /\ pc = "Statistics" \/ Entered("Statistics")
               /\ result # "False"

C18_Witness ==
    ~env.zstd /\ pc = "Done" /\ result = "True" /\ compress_cmd.tool = "gzip"

\* ----------------------------------------------------------------- C19
\* C19: the statistics written for non-negative sizes have diff_size >= 0,
\* a compression ratio equal to 100 * diff_size / target_size when
\* target_size > 0 and 0 when target_size = 0, reported to the nearest
\* hundredth, and space saved equal to target_size - diff_size, negative
\* when the delta is larger than the target.
C19_StatisticsInvariants ==
    s_pc = "written" =>
        /\ diff_size >= 0 /\ statistics.delta = diff_size
        /\ compression_ratio[2] > 0
        /\ target_size > 0 =>
               compression_ratio[1] * target_size
                   = 100 * diff_size * compression_ratio[2]
        /\ target_size = 0 =>
               /\ compression_ratio = <<0, 1>>
               /\ statistics.compression = 0
        /\ LET err == 100 * compression_ratio[1]
                          - statistics.compression * compression_ratio[2]
           IN  -compression_ratio[2] <= 2 * err /\ 2 * err <= compression_ratio[2]
        /\ statistics.space_saved = target_size - diff_size
        /\ statistics.space_saved < 0 <=> diff_size > target_size

C19_Witness ==
    /\ s_pc = "written"
    /\ target_size = 0
    /\ diff_size > 0
    /\ statistics.space_saved < 0

C19_WitnessRatio ==
    /\ s_pc = "written"
    /\ target_size = 3
    /\ diff_size = 2
    /\ statistics.compression = 6667

\* ----------------------------------------------------------------- C20
ParentBlockedWriting ==
    p_pc = "communicate" /\ p_input > 0 /\ c_pc # "exited"
        /\ stdin_fill = cap[1]

ChildBlockedWriting ==
    c_pc \in {"running", "finishing"} /\ c_pending > 0
        /\ stderr_fill = cap[2]

\* C20: while the member list is written to the child and its stderr is
\* drained, whenever the stdin pipe is full with input left and the child
\* waits for room in a full stderr pipe, the parent can read stderr; and
\* until communicate() returns, the parent or the child can take a step.
C20_NoMutualBlock ==
    /\ (ParentBlockedWriting /\ ChildBlockedWriting) => ENABLED ParentReadErr
    /\ p_pc = "communicate" =>
           ENABLED (ParentWrite \/ ParentReadErr \/ ParentEOF \/ ChildRead
                      \/ ChildWriteErr \/ ChildEOF \/ ChildExit)

C20_Witness == ParentBlockedWriting /\ ChildBlockedWriting

C20_WitnessDone == p_pc = "done" /\ stderr > MaxLines

\* ----------------------------------------------------------------- C21
\* C21: the process exits with status 0 exactly when generate_delta
\* returned True and with status 1 after a returned False or an uncaught
\* exception; with a number of positional arguments other than 5 or 6 it
\* prints the usage and exits 1 before any SimpleDeltaGen is constructed,
\* any directory made or any step run.
C21_ExitStatusFollowsOutcome ==
    /\ (exit_status # "none" /\ pc # "Usage") =>
           /\ Terminal
           /\ exit_status = "0" <=> (pc = "Done" /\ result = "True")
           /\ exit_status = "1" <=> (pc = "Failed"
                                       /\ result \in {"False", "raised"})
    /\ (pc # "idle" /\ argc \notin {5, 6}) =>
           /\ pc = "Usage"
           /\ usage
           /\ exit_status = "1"
           /\ generator = "None"
           /\ made_dirs = {}
           /\ steps = <<>> /\ invoked = {} /\ written = {}
    /\ (usage \/ pc = "Usage") => argc \notin {5, 6}
    /\ generator # "None" => made_dirs = {Dirs[i] : i \in 1..Len(Dirs)}

C21_Witness == pc = "Usage" /\ argc = 7 /\ exit_status = "1"

C21_WitnessSuccess == exit_status = "0" /\ argc = 6

C21_WitnessRaised == exit_status = "1" /\ result = "raised" /\ steps # <<>>

\* ----------------------------------------------------------------- C22
\* C22: when recompress_swu returns True it has run rmtree on the scratch
\* directory after cpio -o; an rmtree that left files behind still gives
\* True, nothing is raised by it, and the diff is taken against the
\* recompressed output.
C22_CleanupIsBestEffort ==
    /\ recompress_result = "True" =>
           /\ "rmtree" \in invoked
           /\ "cpio -o" \in invoked
    /\ ("Cleanup" \in failed /\ "Build" \notin failed) =>
           /\ recompress_result = "True"
           /\ temp_extract # {}
           /\ pc = "ChooseTarget" => result = "none"
           /\ Entered("Diff") => target_for_diff = recompressed_output

C22_Witness ==
    /\ "Cleanup" \in failed
    /\ recompress_result = "True"
    /\ pc = "Done"

\* ----------------------------------------------------------------- C23
JobPositions ==
    <<"SizeProbe", "Decide", "List", "Extract", "Order", "Verify", "Build",
      "ChooseTarget", "Diff", "Compress", "Statistics", "Finish">>

\* how far a job has come; both terminal outcomes are past every position
Rank(p) ==
    IF \E i \in DOMAIN JobPositions : JobPositions[i] = p
    THEN CHOOSE i \in DOMAIN JobPositions : JobPositions[i] = p
    ELSE Len(JobPositions) + 1

JobStep ==
    \/ SizeProbe \/ Decide \/ ListArchive \/ ExtractArchive \/ EnforceOrder
    \/ Verify \/ BuildArchive \/ ChooseTarget \/ Diff \/ Compress
    \/ Statistics \/ Finish

Running == pc \notin {"idle", "Usage", "Done", "Failed"}

\* C23: a running job can always take its next step and every step moves
\* it strictly forward, so it ends, in Done with True or in Failed and in
\* nothing else; no step is entered twice; once a job is Done or Failed
\* nothing more is run or written and the outcome stays; a recompression
\* that returned False is followed once by the diff against the original
\* target, and the target of the diff is chosen once.
C23_EveryJobEndsOnce ==
    /\ [](Running => ENABLED JobStep)
    /\ [][Running => Rank(pc') > Rank(pc)]_vars
    /\ [](\A i, j \in DOMAIN steps : steps[i] = steps[j] => i = j)
    /\ [](Terminal => /\ pc = "Done" <=> result = "True"
                      /\ pc = "Failed" <=> result \in {"False", "raised"})
    /\ [][Terminal => \/ pc' = "idle"
                      \/ /\ pc' = pc /\ result' = result
                         /\ steps' = steps /\ invoked' = invoked
                         /\ written' = written /\ log' = log]_vars
    /\ []((recompress_result = "False" /\ Entered("Diff")) =>
              /\ target_for_diff = TargetPath
              /\ Count(steps, "Recompress") = 1)
    /\ [][target_for_diff # "unset" =>
              target_for_diff' \in {target_for_diff, "unset"}]_vars

C23_Witness ==
    /\ pc = "Done"
    /\ recompress_result = "False"
    /\ "Extract" \in failed
    /\ exit_status = "0"

C23_WitnessFailed == pc = "Failed" /\ Entered("Compress") /\ exit_status = "1"

\* ----------------------------------------------------------------- C24
\* C24: whatever earlier jobs left in the scratch directory, every member
\* of an archive rebuilt by recompress_swu is a member of the archive the
\* job was given as target.
C24_RebuiltMembersComeFromOriginal ==
    \A p \in Paths :
        (fs[p].kind = "rebuilt" /\ p \in written) =>
            \A i \in DOMAIN fs[p].members :
                Contains(origTarget.members, fs[p].members[i])

\* ----------------------------------------------------------------- C25
\* the hashes a written manifest carries, with the file each was taken from
HashesUsed(m) ==
    {m.files[1].hashes.sha256, m.files[2].hashes.sha256}
      \cup (IF "relatedFiles" \in DOMAIN m.files[1]
            THEN UNION {{m.files[1].relatedFiles[i].hashes.sha256,
                         m.files[1].relatedFiles[i].properties.sourceFileHash} :
                           i \in DOMAIN m.files[1].relatedFiles}
            ELSE {})

\* C25: whichever of the expected files exist, the manifest generator ends
\* without an unhandled error, a manifest is written only from hashes of
\* files that exist, and the v2.0.0 and v3.0.0 manifests are written only
\* when their source SWUs were found.
C25_ManifestsUseOnlyFoundFiles ==
    /\ m_result # "KeyError"
    /\ \A v \in DOMAIN manifests :
           \A h \in HashesUsed(manifests[v]) : h[2] \in present
    /\ "v2" \in DOMAIN manifests => SwuFiles["v1"] \in present
    /\ "v3" \in DOMAIN manifests => {SwuFiles["v1"], SwuFiles["v2"]} \subseteq present
    /\ m_pc = "ended" => m_result \in {"exit 0", "exit 1"}

\* ----------------------------------------------------------------- C26
\* C26: in the manifest generate_import_manifest returns, the SWU entry
\* has relatedFiles and downloadHandler exactly when related_files is a
\* non-empty list, relatedFiles then holds one entry per item in the
\* order given, the SWU entry has deltaHandler exactly when
\* enable_delta_caching is true, and the script entry has none of the three.
C26_DeltaKeysOfTheFileEntries ==
    g_pc = "returned" =>
        LET swu == manifest.files[1]
            script == manifest.files[2]
            nonEmpty == related_files.given /\ related_files.items # <<>>
        IN  /\ Len(manifest.files) = 2
            /\ "relatedFiles" \in DOMAIN swu <=> nonEmpty
            /\ "downloadHandler" \in DOMAIN swu <=> nonEmpty
            /\ nonEmpty =>
                   /\ Len(swu.relatedFiles) = Len(related_files.items)
                   /\ \A i \in DOMAIN related_files.items :
                          /\ swu.relatedFiles[i].filename
                                 = related_files.items[i].filename
                          /\ swu.relatedFiles[i].hashes.sha256
                                 = related_files.items[i].hash
                          /\ swu.relatedFiles[i].properties.sourceFileHash
                                 = related_files.items[i].sourceHash
            /\ "deltaHandler" \in DOMAIN swu <=> enable_delta_caching
            /\ DOMAIN script \cap {"relatedFiles", "downloadHandler",
                                   "deltaHandler"} = {}
            /\ swu.filename = SwuFiles[g_swu]
            /\ script.filename = ScriptFile

C26_Witness ==
    /\ g_pc = "returned"
    /\ Len(related_files.items) = 2
    /\ related_files.items[1] # related_files.items[2]
    /\ ~enable_delta_caching
    /\ "downloadHandler" \in DOMAIN manifest.files[1]

C26_WitnessCaching ==
    /\ g_pc = "returned"
    /\ related_files.given /\ related_files.items = <<>>
    /\ "deltaHandler" \in DOMAIN manifest.files[1]

====
